---- MODULE Spec2Model ----
(***************************************************************************)
(* Model of app.py, the "Restaurant Fortune Wheel" Streamlit script.       *)
(*                                                                         *)
(* The persisted option list (restaurants.json), the session state and     *)
(* the position of the script inside the spin animation are the state.     *)
(* One action stands for one script run triggered by one widget            *)
(* interaction; the spin animation loop is unrolled one frame per step.    *)
(*                                                                         *)
(* Python floats are modelled as exact rationals [num, den] in lowest      *)
(* terms, so equalities below are equalities of real numbers.  Strings     *)
(* are sequences of one-character strings.  Optional values are            *)
(* sequences of length 0 (None) or 1.  List indices are 0-based as in the  *)
(* source; element i of a Python list is element i + 1 of the sequence.    *)
(***************************************************************************)
EXTENDS Integers, Sequences, FiniteSets, TLC

VARIABLES
    restaurants,     \* content of DATA_FILE as load_restaurants returns it
    spinning,        \* st.session_state.spinning
    result,          \* st.session_state.result (Optional name)
    authenticated,   \* st.session_state.authenticated
    password_input,  \* value of the text_input keyed "password_input"
    pc,              \* position of the script: "idle", "rerun", "animating", or "fn"
    frame,           \* next value the loop "for frame in range(frames)" takes
    winner_idx,      \* local winner_idx of the spinning branch
    target,          \* Optional value of the target-rotation expression of line 157
    wheel            \* last output of generate_wheel_svg put on the page

vars == <<restaurants, spinning, result, authenticated, password_input,
          pc, frame, winner_idx, target, wheel>>

----------------------------------------------------------------------------
(* Bounds of the model and program constants *)

MaxLen == 2          \* longest persisted list the admin actions build
MaxOptions == 3      \* longest argument list given to the pure functions

MinProb == 1         \* number_input min_value
MaxProb == 100       \* number_input max_value
spins == 5
frames == 60
NameLimit == 15      \* len(name) > 15
NameKeep == 13       \* name[:13]
LargeArcLimit == 180

ADMIN_PASSWORD == "change-me-now-12345"

colors == <<"#FF6B6B", "#4ECDC4", "#45B7D1", "#FFA07A", "#98D8C8",
            "#F7DC6F", "#BB8FCE", "#85C1E2", "#F8B739", "#52C97F">>

\* Texts typed into the name fields and passwords typed into the login field
NameInputs == { <<>>, <<"a">>, <<" ", "b">> }
PasswordInputs == { ADMIN_PASSWORD, "letmein" }
\* Values offered to number_input; the widget only yields values in range
ProbInputs == { p \in {0, 10, 100, 101} : p >= MinProb /\ p <= MaxProb }

\* Arguments of the pure functions: the file is read without validation
FnNames == { <<"a">>, <<"b">> }
FnWeights == {0, 10, 80}

----------------------------------------------------------------------------
(* Optional values *)

None == <<>>
Some(x) == <<x>>

----------------------------------------------------------------------------
(* Exact rational arithmetic standing for Python float arithmetic *)

RECURSIVE GCD(_, _)
GCD(a, b) == IF b = 0 THEN a ELSE GCD(b, a % b)

Abs(n) == IF n < 0 THEN -n ELSE n

LCM(a, b) == (a \div GCD(a, b)) * b

\* n / d for integers n and d > 0
Frac(n, d) ==
    LET g == GCD(Abs(n), d)
    IN  [num |-> n \div g, den |-> d \div g]

IntRat(n) == [num |-> n, den |-> 1]
Zero == IntRat(0)
One == IntRat(1)

RatAdd(a, b) ==
    LET l == LCM(a.den, b.den)
    IN  Frac(a.num * (l \div a.den) + b.num * (l \div b.den), l)

RatSub(a, b) == RatAdd(a, [num |-> -b.num, den |-> b.den])

RatMul(a, b) ==
    LET g1 == GCD(Abs(a.num), b.den)
        g2 == GCD(Abs(b.num), a.den)
    IN  IF a.num = 0 \/ b.num = 0 THEN Zero
        ELSE [num |-> (a.num \div g1) * (b.num \div g2),
              den |-> (a.den \div g2) * (b.den \div g1)]

RatHalf(a) == RatMul(a, Frac(1, 2))

RatLeq(a, b) ==
    LET l == LCM(a.den, b.den)
    IN  a.num * (l \div a.den) <= b.num * (l \div b.den)

RatLess(a, b) == RatLeq(a, b) /\ a # b

\* math.pow(x, 3)
Pow3(x) == RatMul(x, RatMul(x, x))

----------------------------------------------------------------------------
(* Helpers on lists *)

RECURSIVE SumProb(_)
SumProb(rs) == IF rs = <<>> THEN 0 ELSE rs[1].probability + SumProb(Tail(rs))

RECURSIVE Strip(_)
Strip(s) ==
    IF s = <<>> THEN s
    ELSE IF Head(s) = " " THEN Strip(Tail(s))
    ELSE IF s[Len(s)] = " " THEN Strip(SubSeq(s, 1, Len(s) - 1))
    ELSE s

Pop(rs, idx) == SubSeq(rs, 1, idx) \o SubSeq(rs, idx + 2, Len(rs))

----------------------------------------------------------------------------
(* spin_wheel: the set of values the call can return.  random.choices      *)
(* draws one element; an element whose weight is 0 is never drawn.         *)

\* spin_wheel with the weights ignored by the draw
spin_wheel_any(rs) ==
    IF rs = <<>> THEN {None}
    ELSE { Some(rs[i].name) : i \in 1..Len(rs) }

spin_wheel(rs) ==
    IF rs = <<>> THEN {None}
    ELSE
        LET names == [i \in 1..Len(rs) |-> rs[i].name]
            weights0 == [i \in 1..Len(rs) |-> rs[i].probability]
            total0 == SumProb(rs)
            weights == IF total0 = 0 THEN [i \in 1..Len(rs) |-> 1] ELSE weights0
            total == IF total0 = 0 THEN Len(rs) ELSE total0
            normalized_weights == [i \in 1..Len(rs) |-> Frac(weights[i], total)]
        IN  { Some(names[i]) : i \in { j \in 1..Len(rs) : normalized_weights[j].num > 0 } }

----------------------------------------------------------------------------
(* generate_wheel_svg.  The output keeps what decides the picture: the     *)
(* rotation of the whole svg and, per segment, its start and sweep angle   *)
(* in degrees clockwise from the top, the arc flag, the fill colour and    *)
(* the label.  The x/y coordinates are cos/sin of these angles and are     *)
(* not kept.                                                               *)

NoWheel == [status |-> "none", rotation |-> Zero, highlight |-> None, segments |-> <<>>]
EmptySvg == [status |-> "empty", rotation |-> Zero, highlight |-> None, segments |-> <<>>]
SvgFault == [status |-> "ZeroDivisionError", rotation |-> Zero, highlight |-> None, segments |-> <<>>]

Label(name) ==
    IF Len(name) > NameLimit THEN SubSeq(name, 1, NameKeep) \o <<".", ".", ".">> ELSE name

\* the loop with the running angle replaced instead of accumulated
RECURSIVE DrawSegmentsNoAcc(_, _, _, _, _)
DrawSegmentsNoAcc(rs, total_prob, highlight_index, idx, current_angle) ==
    IF idx >= Len(rs) THEN <<>>
    ELSE
        LET restaurant == rs[idx + 1]
            angle == RatMul(Frac(restaurant.probability, total_prob), IntRat(360))
            seg == [start |-> current_angle,
                    angle |-> angle,
                    large_arc |-> IF RatLess(IntRat(LargeArcLimit), angle) THEN 1 ELSE 0,
                    color |-> IF highlight_index = Some(idx) THEN "#FFD700"
                              ELSE colors[(idx % Len(colors)) + 1],
                    text_rotation |-> RatAdd(current_angle, RatHalf(angle)),
                    name |-> Label(restaurant.name)]
        IN  <<seg>> \o DrawSegmentsNoAcc(rs, total_prob, highlight_index, idx + 1, angle)

\* lines 75-111: for idx, restaurant in enumerate(restaurants)
RECURSIVE DrawSegments(_, _, _, _, _)
DrawSegments(rs, total_prob, highlight_index, idx, current_angle) ==
    IF idx >= Len(rs) THEN <<>>
    ELSE
        LET restaurant == rs[idx + 1]
            angle == RatMul(Frac(restaurant.probability, total_prob), IntRat(360))
            seg == [start |-> current_angle,
                    angle |-> angle,
                    large_arc |-> IF RatLess(IntRat(LargeArcLimit), angle) THEN 1 ELSE 0,
                    color |-> IF highlight_index = Some(idx) THEN "#FFD700"
                              ELSE colors[(idx % Len(colors)) + 1],
                    text_rotation |-> RatAdd(current_angle, RatHalf(angle)),
                    name |-> Label(restaurant.name)]
        IN  <<seg>> \o DrawSegments(rs, total_prob, highlight_index, idx + 1,
                                    RatAdd(current_angle, angle))

generate_wheel_svg(rs, rotation, highlight_index) ==
    IF rs = <<>> THEN EmptySvg
    ELSE
        LET total_prob == SumProb(rs)
        IN  IF total_prob = 0 THEN SvgFault
            ELSE [status |-> "ok",
                  rotation |-> rotation,
                  highlight |-> highlight_index,
                  segments |-> DrawSegments(rs, total_prob, highlight_index, 0, Zero)]

----------------------------------------------------------------------------
(* The spinning branch of the main section, lines 142-171 *)

NoTarget == [status |-> "none", value |-> Zero]

\* winner lookup that always falls back to the default
WinnerIdxDefault(rs, final_result) == 0

\* line 147: next((i for i, r in enumerate(restaurants) if r['name'] == final_result), 0)
WinnerIdx(rs, final_result) ==
    LET matches == { i \in 0..(Len(rs) - 1) : Some(rs[i + 1].name) = final_result }
    IN  IF matches = {} THEN 0
        ELSE CHOOSE i \in matches : \A j \in matches : i <= j

\* line 157, the factor of eased_progress:
\* 360 * spins + 360 * sum(probability of restaurants[:winner_idx+1]) / sum(probability)
TargetRotation(rs, widx) ==
    LET total == SumProb(rs)
        upto == SumProb(SubSeq(rs, 1, widx + 1))
    IN  IF total = 0 THEN [status |-> "ZeroDivisionError", value |-> Zero]
        ELSE [status |-> "ok",
              value |-> RatAdd(IntRat(360 * spins), Frac(360 * upto, total))]

\* the curve without the leading "1 -"
EasedProgressFlipped(f) == Pow3(RatSub(One, Frac(f, frames)))

\* lines 153-155: progress = frame / frames; 1 - math.pow(1 - progress, 3)
EasedProgress(f) ==
    LET progress == Frac(f, frames)
    IN  RatSub(One, Pow3(RatSub(One, progress)))

----------------------------------------------------------------------------
(* The application: one action per script run *)

\* lines 14-21 and the first run of the script: no data file yet, load_restaurants
\* returns [], the main section shows the "No restaurants" notice
Init ==
    /\ restaurants = <<>>
    /\ spinning = FALSE
    /\ result = None
    /\ authenticated = FALSE
    /\ password_input = ""
    /\ pc = "idle"
    /\ frame = 0
    /\ winner_idx = 0
    /\ target = NoTarget
    /\ wheel = NoWheel

\* lines 138-176 and 192-193 of a run that starts with spinning False
StaticWheel(rs) ==
    IF rs # <<>> THEN generate_wheel_svg(rs, Zero, None) ELSE NoWheel

\* a run between two interactions starts with pc = "idle"; spinning is False then
\* (IdleNotSpinning below), so the main section takes the static branch
IdleRun == pc = "idle" /\ ~spinning

Locals == <<frame, winner_idx, target>>

\* line 202 with the comparison dropped
PasswordOkAlways(password) == TRUE

\* line 202: password == ADMIN_PASSWORD
PasswordOk(password) == password = ADMIN_PASSWORD

\* line 200: the visitor types into the password field; the run changes nothing
TypePassword(password) ==
    /\ IdleRun
    /\ ~authenticated
    /\ password_input' = password
    /\ wheel' = StaticWheel(restaurants)
    /\ UNCHANGED <<restaurants, spinning, result, authenticated, pc, Locals>>

\* lines 201-206.  After a successful login the rerun no longer draws the
\* password field and Streamlit drops the state of a widget that is not drawn
Login ==
    /\ IdleRun
    /\ ~authenticated
    /\ IF PasswordOk(password_input)
       THEN authenticated' = TRUE /\ password_input' = ""
       ELSE UNCHANGED <<authenticated, password_input>>
    /\ wheel' = StaticWheel(restaurants)
    /\ UNCHANGED <<restaurants, spinning, result, pc, Locals>>

\* lines 210-212
Logout ==
    /\ IdleRun
    /\ authenticated
    /\ authenticated' = FALSE
    /\ wheel' = StaticWheel(restaurants)
    /\ UNCHANGED <<restaurants, spinning, result, password_input, pc, Locals>>

\* line 223: if new_name.strip()
AddAccepted(new_name) == Strip(new_name) # <<>>

\* lines 222-232; the rerun after a save draws the wheel of the new list
AddRestaurant(new_name, new_prob) ==
    /\ IdleRun
    /\ authenticated
    /\ Len(restaurants) < MaxLen
    /\ IF AddAccepted(new_name)
       THEN restaurants' = Append(restaurants,
                                  [name |-> Strip(new_name), probability |-> new_prob])
       ELSE UNCHANGED restaurants
    /\ wheel' = StaticWheel(restaurants')
    /\ UNCHANGED <<spinning, result, authenticated, password_input, pc, Locals>>

\* lines 237-252 and 262-267: one of the two widgets of row idx was changed;
\* the wheel was drawn before the save and the run does not rerun
EditRestaurant(idx, new_name, new_prob) ==
    /\ IdleRun
    /\ authenticated
    /\ idx \in 0..(Len(restaurants) - 1)
    /\ LET restaurant == restaurants[idx + 1]
       IN  /\ \/ new_name # restaurant.name /\ new_prob = restaurant.probability
              \/ new_name = restaurant.name /\ new_prob # restaurant.probability
           /\ restaurants' = [restaurants EXCEPT ![idx + 1] =
                                  [name |-> new_name, probability |-> new_prob]]
    /\ wheel' = StaticWheel(restaurants)
    /\ UNCHANGED <<spinning, result, authenticated, password_input, pc, Locals>>

\* lines 256-259
DeleteRestaurant(idx) ==
    /\ IdleRun
    /\ authenticated
    /\ idx \in 0..(Len(restaurants) - 1)
    /\ restaurants' = Pop(restaurants, idx)
    /\ wheel' = StaticWheel(restaurants')
    /\ UNCHANGED <<spinning, result, authenticated, password_input, pc, Locals>>

\* lines 182-185: the button is drawn only for a non-empty list and is disabled
\* while spinning; st.rerun() ends the run before the admin section
ClickSpin ==
    /\ IdleRun
    /\ restaurants # <<>>
    /\ result' \in spin_wheel(restaurants)
    /\ spinning' = TRUE
    /\ pc' = "rerun"
    /\ wheel' = StaticWheel(restaurants)
    /\ UNCHANGED <<restaurants, authenticated, password_input, Locals>>

\* Python truthiness of st.session_state.result
Truthy(opt) == opt # None /\ opt[1] # <<>>

\* lines 188-191
SpinAgain ==
    /\ IdleRun
    /\ restaurants # <<>>
    /\ Truthy(result)
    /\ result' = None
    /\ wheel' = StaticWheel(restaurants)
    /\ UNCHANGED <<restaurants, spinning, authenticated, password_input, pc, Locals>>

\* lines 131-151 of the run started by st.rerun() at line 185
StartAnimation ==
    /\ pc = "rerun"
    /\ IF restaurants # <<>> /\ spinning
       THEN /\ winner_idx' = WinnerIdx(restaurants, result)
            /\ frame' = 0
            /\ pc' = "animating"
            /\ UNCHANGED wheel
       ELSE /\ pc' = "idle"
            /\ wheel' = StaticWheel(restaurants)
            /\ UNCHANGED <<winner_idx, frame>>
    /\ UNCHANGED <<restaurants, spinning, result, authenticated, password_input, target>>

\* lines 152-162: one iteration of the loop.  A ZeroDivisionError ends the run
AnimateFrame ==
    /\ pc = "animating"
    /\ frame < frames
    /\ LET t == TargetRotation(restaurants, winner_idx)
           rotation == RatMul(EasedProgress(frame), t.value)
       IN  /\ target' = t
           /\ IF t.status = "ok"
              THEN /\ wheel' = generate_wheel_svg(restaurants, rotation, None)
                   /\ frame' = frame + 1
                   /\ pc' = pc
              ELSE /\ wheel' = SvgFault
                   /\ frame' = 0
                   /\ pc' = "idle"
    /\ UNCHANGED <<restaurants, spinning, result, authenticated, password_input, winner_idx>>

\* lines 164-171 and the rest of the run; rotation is the value the last
\* iteration left in the loop variable.  The locals end with the run
FinalRender ==
    /\ pc = "animating"
    /\ frame = frames
    /\ wheel' = generate_wheel_svg(restaurants, wheel.rotation, Some(winner_idx))
    /\ spinning' = FALSE
    /\ pc' = "idle"
    /\ frame' = 0
    /\ winner_idx' = 0
    /\ target' = NoTarget
    /\ UNCHANGED <<restaurants, result, authenticated, password_input>>

Next ==
    \/ \E password \in PasswordInputs : TypePassword(password)
    \/ Login
    \/ Logout
    \/ \E new_name \in NameInputs, new_prob \in ProbInputs : AddRestaurant(new_name, new_prob)
    \/ \E idx \in 0..(MaxLen - 1), new_name \in NameInputs, new_prob \in ProbInputs :
           EditRestaurant(idx, new_name, new_prob)
    \/ \E idx \in 0..(MaxLen - 1) : DeleteRestaurant(idx)
    \/ ClickSpin
    \/ SpinAgain
    \/ StartAnimation
    \/ AnimateFrame
    \/ FinalRender

Spec == Init /\ [][Next]_vars

\* between runs the spinning flag is down, so every run that an interaction
\* starts takes the static branch of the main section
IdleNotSpinning == pc = "idle" => ~spinning

----------------------------------------------------------------------------
(* The pure functions applied to arbitrary file contents.  load_restaurants *)
(* returns whatever the file holds, so the arguments include weights of 0.  *)

FnOptions == [name : FnNames, probability : FnWeights]
FnLists == UNION { [1..n -> FnOptions] : n \in 0..MaxOptions }

InitFn ==
    /\ restaurants \in FnLists
    /\ spinning = FALSE
    /\ result = None
    /\ authenticated = FALSE
    /\ password_input = ""
    /\ pc = "fn"
    /\ frame = 0
    /\ winner_idx = 0
    /\ target = NoTarget
    /\ wheel = NoWheel

FnFixed == <<restaurants, spinning, authenticated, password_input, frame>>

\* a call of spin_wheel(restaurants)
FnSpinWheel ==
    /\ result' \in spin_wheel(restaurants)
    /\ pc' = "spin_wheel"
    /\ winner_idx' = 0
    /\ target' = NoTarget
    /\ wheel' = NoWheel
    /\ UNCHANGED FnFixed

\* an evaluation of the target-rotation expression for a winner index
FnTargetRotation(widx) ==
    /\ widx \in 0..(Len(restaurants) - 1)
    /\ target' = TargetRotation(restaurants, widx)
    /\ winner_idx' = widx
    /\ pc' = "target"
    /\ result' = None
    /\ wheel' = NoWheel
    /\ UNCHANGED FnFixed

\* a call of generate_wheel_svg(restaurants, rotation, highlight_index), at
\* rotation 0 or at the target rotation evaluated before
FnGenerateWheelSvg(at_target, highlight_index) ==
    /\ at_target => target.status = "ok"
    /\ IF highlight_index = None THEN TRUE ELSE highlight_index[1] < Len(restaurants)
    /\ wheel' = generate_wheel_svg(restaurants,
                                   IF at_target THEN target.value ELSE Zero,
                                   highlight_index)
    /\ pc' = "svg"
    /\ result' = None
    /\ UNCHANGED <<target, winner_idx>>
    /\ UNCHANGED FnFixed

NextFn ==
    \/ FnSpinWheel
    \/ \E widx \in 0..(MaxOptions - 1) : FnTargetRotation(widx)
    \/ \E at_target \in BOOLEAN,
          highlight_index \in {None} \cup { Some(i) : i \in 0..(MaxOptions - 1) } :
           FnGenerateWheelSvg(at_target, highlight_index)

SpecFn == InitFn /\ [][NextFn]_vars

----------------------------------------------------------------------------
(* Properties *)

Indices(rs) == 0..(Len(rs) - 1)
Golden(w) == { i \in Indices(w.segments) : w.segments[i + 1].color = "#FFD700" }
AllPositive(rs) == \A i \in 1..Len(rs) : rs[i].probability > 0
AllZero(rs) == \A i \in 1..Len(rs) : rs[i].probability = 0
NamesOf(rs) == { rs[i].name : i \in 1..Len(rs) }
\* x is a whole multiple of 360 degrees
FullTurns(x) == x.den = 1 /\ x.num % 360 = 0

\* C1: the rotation of the last animation frame, and of the highlighted final
\* render after it, equals the target rotation
\* 5*360 + 360 * (weights of options 0..winner) / (all weights).
C1_LastFrameAtTarget ==
    /\ (pc = "animating" /\ frame = frames) => wheel.rotation = target.value
    /\ wheel.highlight # None =>
           wheel.rotation = TargetRotation(restaurants, wheel.highlight[1]).value

\* C2: with positive weights, the wheel turned clockwise by the target rotation
\* has the centre of the winner's segment under the pointer at the top:
\* start(winner) + sweep(winner)/2 + target is a whole number of turns.
C2_WinnerCentredAtTarget ==
    ( /\ pc = "svg"
      /\ wheel.status = "ok"
      /\ AllPositive(restaurants)
      /\ target.status = "ok"
      /\ wheel.rotation = target.value
      /\ wheel.highlight = Some(winner_idx) )
    => LET seg == wheel.segments[winner_idx + 1]
       IN  FullTurns(RatAdd(RatAdd(seg.start, RatHalf(seg.angle)), wheel.rotation))

\* C3: for a non-empty list whose weights are all 0, spin_wheel,
\* generate_wheel_svg and the target-rotation expression treat the options as
\* uniformly weighted and end without a division by zero.
C3_AllZeroIsUniform ==
    (restaurants # <<>> /\ AllZero(restaurants)) =>
        LET k == Len(restaurants)
        IN  /\ pc = "spin_wheel" =>
                  /\ result # None
                  /\ spin_wheel(restaurants) = { Some(n) : n \in NamesOf(restaurants) }
            /\ pc = "svg" =>
                  /\ wheel.status = "ok"
                  /\ \A i \in 1..Len(wheel.segments) : wheel.segments[i].angle = Frac(360, k)
            /\ pc = "target" =>
                  /\ target.status = "ok"
                  /\ target.value = RatAdd(IntRat(360 * spins), Frac(360 * (winner_idx + 1), k))

\* C4: every persisted option has a non-empty name and a weight in [1, 100];
\* an add or edit that would store an empty name leaves the list as it was.
C4_OptionsValid ==
    \A i \in 1..Len(restaurants) :
        /\ restaurants[i].name # <<>>
        /\ restaurants[i].probability \in MinProb..MaxProb

\* C5: for a non-empty list of positive total weight generate_wheel_svg lays
\* the segments out in list order without gaps: segment i starts at
\* 360 * (weights before i) / total and sweeps 360 * weight_i / total, the first
\* starts at 0 and the last ends at 360.
C5_SegmentsLayout ==
    (pc = "svg" /\ restaurants # <<>> /\ SumProb(restaurants) > 0) =>
        LET total == SumProb(restaurants)
            n == Len(restaurants)
            segs == wheel.segments
        IN  /\ wheel.status = "ok"
            /\ Len(segs) = n
            /\ \A i \in 1..n :
                  /\ segs[i].start = Frac(360 * SumProb(SubSeq(restaurants, 1, i - 1)), total)
                  /\ segs[i].angle = Frac(360 * restaurants[i].probability, total)
                  /\ i < n => RatAdd(segs[i].start, segs[i].angle) = segs[i + 1].start
            /\ segs[1].start = Zero
            /\ RatAdd(segs[n].start, segs[n].angle) = IntRat(360)

C5_Witness ==
    /\ pc = "svg"
    /\ [i \in 1..Len(restaurants) |-> restaurants[i].probability] = <<10, 10, 80>>
    /\ [i \in 1..Len(wheel.segments) |-> wheel.segments[i].angle]
           = <<IntRat(36), IntRat(36), IntRat(288)>>
    /\ wheel.segments[3].start = IntRat(72)

\* C6: spin_wheel returns None exactly for the empty list; otherwise it
\* returns one name of the list, and the names it can return are those of
\* weight > 0 when the total is positive and all names when every weight is 0.
C6_SpinWheelResult ==
    LET positive == { restaurants[i].name :
                          i \in { j \in 1..Len(restaurants) : restaurants[j].probability > 0 } }
        allowed == IF SumProb(restaurants) > 0 THEN positive ELSE NamesOf(restaurants)
    IN  pc = "spin_wheel" =>
            /\ (result = None) = (restaurants = <<>>)
            /\ restaurants # <<>> =>
                  /\ result[1] \in allowed
                  /\ spin_wheel(restaurants) = { Some(n) : n \in allowed }
            /\ Len(restaurants) = 1 => result = Some(restaurants[1].name)

C6_Witness ==
    /\ pc = "spin_wheel"
    /\ Len(restaurants) = 3
    /\ restaurants[1].probability = 0
    /\ restaurants[2].probability = 0
    /\ restaurants[3].probability > 0
    /\ restaurants[1].name # restaurants[3].name
    /\ result = Some(restaurants[3].name)

\* C7: during a spin every animation frame is rendered without a highlighted
\* segment; the render after the 60 frames highlights exactly one segment and
\* the name of its option is the result chosen by spin_wheel.
C7_Highlight ==
    /\ [](pc = "animating" => wheel.highlight = None /\ Golden(wheel) = {})
    /\ [](wheel.highlight # None =>
              /\ pc = "idle"
              /\ result # None
              /\ Cardinality(Golden(wheel)) = 1
              /\ \A i \in Golden(wheel) :
                     /\ wheel.highlight = Some(i)
                     /\ restaurants[i + 1].name = result[1])
    /\ [][wheel'.highlight # None => pc = "animating" /\ frame = frames]_vars

C7_Witness ==
    /\ wheel.highlight = Some(1)
    /\ Golden(wheel) = {1}
    /\ result = Some(restaurants[2].name)
    /\ restaurants[1].name # restaurants[2].name

\* C8: the rotations rendered over the frames 0..59 start at 0 and never
\* decrease from one frame to the next.
C8_RotationMonotone ==
    [][(pc = "animating" /\ pc' = "animating" /\ frame' = frame + 1) =>
           /\ frame = 0 => wheel'.rotation = Zero
           /\ frame > 0 => RatLeq(wheel.rotation, wheel'.rotation)]_vars

C8_Witness ==
    /\ pc = "animating"
    /\ frame = frames
    /\ RatLess(IntRat(360 * spins - 1), wheel.rotation)

\* C9: whenever the spinning flag is True the stored result is a non-empty
\* name, and no script run leaves the flag True once it has ended, so no second
\* spin starts while one is in progress.
C9_SpinCompletes ==
    /\ spinning => result # None /\ result[1] # <<>>
    /\ pc = "idle" => ~spinning

\* C10: the persisted list changes only in a run with the authenticated flag
\* True; the flag becomes True only by a Login with the admin password and
\* False only by Logout; a spin or a failed login leaves the list unchanged.
C10_AdminOnly ==
    [][ /\ restaurants' # restaurants => authenticated /\ authenticated'
        /\ (~authenticated /\ authenticated') =>
               password_input = ADMIN_PASSWORD /\ Login
        /\ (authenticated /\ ~authenticated') => Logout
        /\ (pc # "idle" \/ pc' # "idle" \/ result' # result) => restaurants' = restaurants
        /\ (~authenticated /\ ~authenticated') => restaurants' = restaurants ]_vars

C10_Witness ==
    /\ authenticated
    /\ restaurants # <<>>
    /\ wheel.highlight # None

====
